---- MODULE Spec2Model ----
(***************************************************************************)
(* Model of netlify/functions/ocr-invoice.js: the OCR invoice endpoint and *)
(* its text-to-fields extraction helpers.                                  *)
(*                                                                         *)
(* A JavaScript string is a sequence of one-character strings, so that     *)
(* splitting, trimming, case folding, regular-expression tests and number  *)
(* parsing are computed character by character, as the code computes them. *)
(*                                                                         *)
(* The file holds two complete copies of the endpoint (lines 1-360 and     *)
(* 362-718).  Both assign exports.handler and both declare functions of    *)
(* the same names.  Function declarations are hoisted and a later          *)
(* declaration of a name replaces an earlier one; the second assignment to *)
(* exports.handler replaces the first.  The declarations in effect are     *)
(* therefore those of lines 362-718; the shadowed first declarations are   *)
(* modelled too, under names ending in _first.                             *)
(***************************************************************************)
EXTENDS Integers, Sequences, FiniteSets, TLC

VARIABLES
    line,        \* SpecLine: the argument of parsePaintLineFlexible
    item,        \* SpecLine: what parsePaintLineFlexible returned
    text,        \* SpecText / Spec: the OCR transcript
    fn,          \* SpecLine / SpecText: the function last applied ("" = none)
    out,         \* SpecText: what that function returned
    pc,          \* Spec: position of the handler invocation
    event,       \* Spec: the request and the environment
    fetches,     \* Spec: number of requests made to the OCR provider
    vision,      \* Spec: what the awaited provider call came to ("none" before)
    response     \* Spec: the handler's response

vars == <<line, item, text, fn, out, pc, event, fetches, vision, response>>

----------------------------------------------------------------------------
(* Characters and strings                                                  *)

UpperSeq == <<"A","B","C","D","E","F","G","H","I","J","K","L","M",
              "N","O","P","Q","R","S","T","U","V","W","X","Y","Z">>
LowerSeq == <<"a","b","c","d","e","f","g","h","i","j","k","l","m",
              "n","o","p","q","r","s","t","u","v","w","x","y","z">>
UpperSet == {UpperSeq[i] : i \in DOMAIN UpperSeq}
LowerSet == {LowerSeq[i] : i \in DOMAIN LowerSeq}
LowerMap == [c \in UpperSet |-> LowerSeq[CHOOSE i \in DOMAIN UpperSeq : UpperSeq[i] = c]]

DigitSeq == <<"0","1","2","3","4","5","6","7","8","9">>
DigitSet == {DigitSeq[i] : i \in DOMAIN DigitSeq}
DigitVal == [c \in DigitSet |-> (CHOOSE i \in DOMAIN DigitSeq : DigitSeq[i] = c) - 1]

\* the class \s and the characters String.prototype.trim removes, restricted
\* to the white space the inputs use
WhiteSpace == {" ", "\t", "\n", "\r"}

isLetter(c) == c \in UpperSet \cup LowerSet
isDigit(c) == c \in DigitSet
isAlnum(c) == isLetter(c) \/ isDigit(c)

\* String.prototype.toLowerCase
toLowerCase(s) == [i \in 1..Len(s) |-> IF s[i] \in UpperSet THEN LowerMap[s[i]] ELSE s[i]]

\* p occurs in s at index i
startsWithAt(s, i, p) ==
    /\ i >= 1
    /\ i + Len(p) - 1 <= Len(s)
    /\ \A k \in 1..Len(p) : s[i + k - 1] = p[k]

\* a case-insensitive regular expression's literal p (in lower case) matches s at index i
matchesAt(s, i, p) ==
    /\ i >= 1
    /\ i + Len(p) - 1 <= Len(s)
    /\ \A k \in 1..Len(p) :
         (IF s[i + k - 1] \in UpperSet THEN LowerMap[s[i + k - 1]] ELSE s[i + k - 1]) = p[k]

\* String.prototype.startsWith
startsWith(s, p) == startsWithAt(s, 1, p)

\* String.prototype.includes
includes(s, p) == \E i \in 1..(Len(s) - Len(p) + 1) : startsWithAt(s, i, p)

\* String.prototype.trim
trim(s) ==
    IF \A i \in 1..Len(s) : s[i] \in WhiteSpace THEN <<>>
    ELSE LET a == CHOOSE i \in 1..Len(s) :
                     s[i] \notin WhiteSpace /\ \A j \in 1..(i - 1) : s[j] \in WhiteSpace
             b == CHOOSE i \in 1..Len(s) :
                     s[i] \notin WhiteSpace /\ \A j \in (i + 1)..Len(s) : s[j] \in WhiteSpace
         IN SubSeq(s, a, b)

\* String.prototype.slice(0, n) for n >= 0
slice0(s, n) == SubSeq(s, 1, IF Len(s) < n THEN Len(s) ELSE n)

\* the element of a one-element set
the(S) == CHOOSE x \in S : TRUE

\* a || b on strings: the empty string is falsy
orElse(a, b) == IF a # <<>> THEN a ELSE b

RECURSIVE splitLinesFrom(_, _)
\* s.split(/\r?\n/), from index `from` on: the separator is a line feed
\* together with a carriage return right before it
splitLinesFrom(s, from) ==
    IF \E i \in from..Len(s) : s[i] = "\n"
    THEN LET nl == CHOOSE i \in from..Len(s) :
                       s[i] = "\n" /\ \A j \in from..(i - 1) : s[j] # "\n"
             last == IF nl > from /\ s[nl - 1] = "\r" THEN nl - 2 ELSE nl - 1
         IN <<SubSeq(s, from, last)>> \o splitLinesFrom(s, nl + 1)
    ELSE <<SubSeq(s, from, Len(s))>>

splitLines(s) == splitLinesFrom(s, 1)

RECURSIVE splitSpaceFrom(_, _)
\* s.split(" "), from index `from` on
splitSpaceFrom(s, from) ==
    IF \E i \in from..Len(s) : s[i] = " "
    THEN LET sp == CHOOSE i \in from..Len(s) :
                       s[i] = " " /\ \A j \in from..(i - 1) : s[j] # " "
         IN <<SubSeq(s, from, sp - 1)>> \o splitSpaceFrom(s, sp + 1)
    ELSE <<SubSeq(s, from, Len(s))>>

splitSpace(s) == splitSpaceFrom(s, 1)

\* s.replace(/\s+/g, " "): every maximal run of white space becomes one space
collapseSpaces(s) ==
    LET kept == SelectSeq([i \in 1..Len(s) |-> i],
                          LAMBDA i : s[i] \notin WhiteSpace \/ i = 1 \/ s[i - 1] \notin WhiteSpace)
    IN [k \in 1..Len(kept) |-> IF s[kept[k]] \in WhiteSpace THEN " " ELSE s[kept[k]]]

RECURSIVE join(_, _)
\* Array.prototype.join
join(parts, sep) ==
    IF Len(parts) = 0 THEN <<>>
    ELSE IF Len(parts) = 1 THEN parts[1]
    ELSE parts[1] \o sep \o join(Tail(parts), sep)

\* text.split(/\r?\n/).map((l) => l.trim()).filter(Boolean)
trimmedLines(t) ==
    LET ls == splitLines(t)
    IN SelectSeq([i \in 1..Len(ls) |-> trim(ls[i])], LAMBDA l : l # <<>>)

----------------------------------------------------------------------------
(* Numbers: the decimal m / 10^k, with k least (no trailing zero digit in  *)
(* the fraction), NaN, and the empty string that stands in for a null qty. *)

Num(m, k) == [kind |-> "num", m |-> m, k |-> k]
NaN == [kind |-> "nan", m |-> 0, k |-> 0]
EmptyQty == [kind |-> "empty", m |-> 0, k |-> 0]

isNaN(v) == v.kind = "nan"

RECURSIVE pow10(_)
pow10(k) == IF k = 0 THEN 1 ELSE 10 * pow10(k - 1)

RECURSIVE digitsValue(_)
digitsValue(ds) ==
    IF Len(ds) = 0 THEN 0
    ELSE 10 * digitsValue(SubSeq(ds, 1, Len(ds) - 1)) + DigitVal[ds[Len(ds)]]

\* number of digits of s in a row from index `from`
digitRun(s, from) ==
    IF from > Len(s) \/ ~isDigit(s[from]) THEN 0
    ELSE IF \A i \in from..Len(s) : isDigit(s[i]) THEN Len(s) - from + 1
    ELSE (CHOOSE i \in from..Len(s) :
              ~isDigit(s[i]) /\ \A j \in from..(i - 1) : isDigit(s[j])) - from

RECURSIVE normalise(_, _)
normalise(m, k) == IF k > 0 /\ m % 10 = 0 THEN normalise(m \div 10, k - 1) ELSE Num(m, k)

\* parseFloat on a string of digits, dots and commas-removed amounts: the
\* longest prefix of the forms  digits  digits.  digits.digits  .digits ;
\* NaN when there is none
parseFloat(s) ==
    LET n1 == digitRun(s, 1)
        dot == n1 < Len(s) /\ s[n1 + 1] = "."
        n2 == IF dot THEN digitRun(s, n1 + 2) ELSE 0
    IN IF n1 = 0 /\ n2 = 0 THEN NaN
       ELSE normalise(digitsValue(SubSeq(s, 1, n1)) * pow10(n2)
                        + digitsValue(SubSeq(s, n1 + 2, n1 + 1 + n2)), n2)

RECURSIVE natToString(_)
natToString(n) ==
    IF n < 10 THEN <<DigitSeq[n + 1]>>
    ELSE natToString(n \div 10) \o <<DigitSeq[(n % 10) + 1]>>

RECURSIVE padLeft(_, _)
padLeft(s, k) == IF Len(s) >= k THEN s ELSE padLeft(<<"0">> \o s, k)

\* `${v}` : Number::toString for the decimals in range (no exponent form),
\* the empty string for ""
toStr(v) ==
    IF v.kind = "empty" THEN <<>>
    ELSE IF v.kind = "nan" THEN <<"N", "a", "N">>
    ELSE IF v.k = 0 THEN natToString(v.m)
    ELSE natToString(v.m \div pow10(v.k)) \o <<".">>
           \o padLeft(natToString(v.m % pow10(v.k)), v.k)

----------------------------------------------------------------------------
(* Words the code names                                                    *)

W_paint == <<"p","a","i","n","t">>
W_Unknown == <<"U","n","k","n","o","w","n">>
W_Pint == <<"P","i","n","t">>
W_Quart == <<"Q","u","a","r","t">>
W_Gallon == <<"G","a","l","l","o","n">>

\* const unitWords = [...]
unitWords == << <<"p","i","n","t">>, <<"p","i","n","t","s">>, <<"p","t">>,
                <<"q","u","a","r","t">>, <<"q","u","a","r","t","s">>, <<"q","t">>,
                <<"g","a","l","l","o","n">>, <<"g","a","l","l","o","n","s">>,
                <<"g","a","l">> >>

\* const brandWords = [...]   (first declaration only)
brandWords == << <<"m","i","p","a">>, <<"p","p","g">>, <<"b","a","s","f">>,
                 <<"s","h","e","r","w","i","n">>, <<"d","u","p","o","n","t">>,
                 <<"s","p","i">>, <<"s","t","a","n","d","o","x">> >>

\* Array.prototype.includes on an array of strings
arrayIncludes(arr, s) == \E i \in 1..Len(arr) : arr[i] = s

----------------------------------------------------------------------------
(* Regular expressions of the paint line parser                            *)

\* /paint/i.test(s)
testPaint(s) == includes(toLowerCase(s), W_paint)

\* /\d/.test(s)
testDigit(s) == \E i \in 1..Len(s) : isDigit(s[i])

\* /(pint|quart|gallon|pt|qt|gal)/i.test(s)
testUnitWord(s) ==
    LET l == toLowerCase(s)
    IN \/ includes(l, <<"p","i","n","t">>) \/ includes(l, <<"q","u","a","r","t">>)
       \/ includes(l, <<"g","a","l","l","o","n">>) \/ includes(l, <<"p","t">>)
       \/ includes(l, <<"q","t">>) \/ includes(l, <<"g","a","l">>)

\* /^wa\d{3,5}$/i.test(t)
testWA(t) ==
    /\ Len(t) >= 5 /\ Len(t) <= 7
    /\ toLowerCase(t)[1] = "w" /\ toLowerCase(t)[2] = "a"
    /\ \A i \in 3..Len(t) : isDigit(t[i])

\* /^[a-z0-9]{2,6}$/i.test(t)   and   /^[A-Za-z0-9]{2,6}$/.test(t)
testShortCode(t) ==
    /\ Len(t) >= 2 /\ Len(t) <= 6
    /\ \A i \in 1..Len(t) : isAlnum(t[i])

\* /\d+\.\d{2}/.test(t): not anchored
testPrice(t) ==
    \E i \in 1..(Len(t) - 3) :
        isDigit(t[i]) /\ t[i + 1] = "." /\ isDigit(t[i + 2]) /\ isDigit(t[i + 3])

\* t.replace(/[^\d.]/g, "")
cleaned(t) == SelectSeq(t, LAMBDA c : isDigit(c) \/ c = ".")

----------------------------------------------------------------------------
(* Token arrays: indices are JavaScript's, from 0; -1 is "not found"       *)

tok(tokens, i) == tokens[i + 1]

\* tokens.slice(a, b) for 0 <= a
sliceTokens(tokens, a, b) == SubSeq(tokens, a + 1, IF b > Len(tokens) THEN Len(tokens) ELSE b)

minOf(a, b) == IF a < b THEN a ELSE b

\* the first i in lo..hi with P(i), or -1: a for loop that breaks at a hit
\* (l and h range over one-element sets so that each bound is computed once)
firstIndex(lo, hi, P(_)) ==
    the({IF \E i \in l..h : P(i)
         THEN CHOOSE i \in l..h : P(i) /\ \A j \in l..(i - 1) : ~P(j)
         ELSE -1 : l \in {lo}, h \in {hi}})

\* const norm = line.replace(/\s+/g, " ").trim();  const tokens = norm.split(" ")
normOf(ln) == trim(collapseSpaces(ln))
tokensOf(ln) == splitSpace(normOf(ln))

\* tokens.findIndex((t) => t.toLowerCase() === "paint")
pIdx(tokens) == firstIndex(0, Len(tokens) - 1, LAMBDA i : toLowerCase(tok(tokens, i)) = W_paint)

\* const startIdx = pIdx === -1 ? 0 : pIdx
startIdx(tokens) == IF pIdx(tokens) = -1 THEN 0 ELSE pIdx(tokens)

\* normalizeUnit without the case fold
normalizeUnit_caseSensitive(u) ==
    LET l == u
    IN IF startsWith(l, <<"p","i","n","t">>) \/ l = <<"p","t">> THEN W_Pint
       ELSE IF startsWith(l, <<"q","u","a","r","t">>) \/ l = <<"q","t">> THEN W_Quart
       ELSE IF startsWith(l, <<"g","a","l","l","o","n">>) \/ l = <<"g","a","l">> THEN W_Gallon
       ELSE u

\* function normalizeUnit(u)
normalizeUnit(u) ==
    LET l == toLowerCase(u)
    IN IF startsWith(l, <<"p","i","n","t">>) \/ l = <<"p","t">> THEN W_Pint
       ELSE IF startsWith(l, <<"q","u","a","r","t">>) \/ l = <<"q","t">> THEN W_Quart
       ELSE IF startsWith(l, <<"g","a","l","l","o","n">>) \/ l = <<"g","a","l">> THEN W_Gallon
       ELSE u

NullItem == [null |-> TRUE]
Item(qty, unit, make, code, color) ==
    [null |-> FALSE, qty |-> qty, unit |-> unit, make |-> make, code |-> code, color |-> color]

----------------------------------------------------------------------------
(* parsePaintLineFlexible, second declaration (lines 571-689): the one in  *)
(* effect.  Each local of the function is an operator of the token array   *)
(* and of the locals computed before it.                                   *)

\* 1) for (i = startIdx + 1; i < Math.min(tokens.length, startIdx + 6); i++)
\*      num = parseFloat(tokens[i].replace(/[^\d.]/g, "")); if (!isNaN(num)) ... break
qtyIdx(tokens, s) ==
    firstIndex(s + 1, minOf(Len(tokens), s + 6) - 1,
               LAMBDA i : ~isNaN(parseFloat(cleaned(tok(tokens, i)))))

\* let qty = null; ... qty = num;   and, in the result, qty !== null ? qty : ""
qty(tokens, q) == IF q = -1 THEN EmptyQty ELSE parseFloat(cleaned(tok(tokens, q)))

\* 2) if (qtyIdx !== -1) for (i = qtyIdx + 1; i < Math.min(tokens.length, qtyIdx + 4); i++)
unitIdx(tokens, q) ==
    IF q = -1 THEN -1
    ELSE firstIndex(q + 1, minOf(Len(tokens), q + 4) - 1,
                    LAMBDA i : arrayIncludes(unitWords, toLowerCase(tok(tokens, i))))

\* if (!unit && qtyIdx !== -1): the first unit word the quantity token includes
embeddedUnit(tokens, q) ==
    the({IF k = -1 THEN <<>> ELSE unitWords[k] :
           k \in {firstIndex(1, Len(unitWords),
                             LAMBDA j : includes(toLowerCase(tok(tokens, q)), unitWords[j]))}})

unit(tokens, q, u) ==
    IF u # -1 THEN tok(tokens, u)
    ELSE IF q # -1 THEN embeddedUnit(tokens, q)
    ELSE <<>>

\* const searchFrom = unitIdx !== -1 ? unitIdx + 1 : qtyIdx !== -1 ? qtyIdx + 1 : startIdx + 1
\* (makeStart, lines 659-664, is the same expression)
searchFrom(s, q, u) ==
    IF u # -1 THEN u + 1
    ELSE IF q # -1 THEN q + 1
    ELSE s + 1

\* 3) the first token from searchFrom on that matches either of codeRegexes
codeIdx(tokens, from) ==
    firstIndex(from, Len(tokens) - 1,
               LAMBDA i : testWA(tok(tokens, i)) \/ testShortCode(tok(tokens, i)))

\* the locals startIdx, qtyIdx, unitIdx, codeIdx, each computed once
anchors_second(tokens) ==
    the({the({the({[s |-> s, q |-> q, u |-> u, c |-> codeIdx(tokens, searchFrom(s, q, u))] :
                     u \in {unitIdx(tokens, q)}}) :
                q \in {qtyIdx(tokens, s)}}) :
           s \in {startIdx(tokens)}})

code(tokens, c) == IF c = -1 THEN <<>> ELSE tok(tokens, c)

\* 4) let make = "Unknown"; if (codeIdx !== -1) { if (makeStart < codeIdx) ... else if ... }
make(tokens, a) ==
    IF a.c = -1 THEN W_Unknown
    ELSE IF searchFrom(a.s, a.q, a.u) < a.c
         THEN join(sliceTokens(tokens, searchFrom(a.s, a.q, a.u), a.c), <<" ">>)
    ELSE IF a.q > a.s + 1
         THEN join(sliceTokens(tokens, a.s + 1, a.q), <<" ">>)
    ELSE W_Unknown

\* 5) color = tokens.slice(codeIdx + 1).join(" ")
color(tokens, c) ==
    IF c # -1 /\ c < Len(tokens) - 1
    THEN join(sliceTokens(tokens, c + 1, Len(tokens)), <<" ">>)
    ELSE <<>>

\* const normalizedUnit = normalizeUnit(unit || "");
\* return { qty: qty !== null ? qty : "", unit: normalizedUnit || unit || "",
\*          make: make || "Unknown", code: code || "", color: color || "" }
result_second(tokens, a) ==
    Item(qty(tokens, a.q),
         orElse(normalizeUnit(orElse(unit(tokens, a.q, a.u), <<>>)),
                orElse(unit(tokens, a.q, a.u), <<>>)),
         orElse(make(tokens, a), W_Unknown),
         orElse(code(tokens, a.c), <<>>),
         orElse(color(tokens, a.c), <<>>))

itemOf_second(tokens) == the({result_second(tokens, a) : a \in {anchors_second(tokens)}})

\* (tokens ranges over a one-element set so that the array is built once)
parsePaintLineFlexible_second(ln) ==
    IF ~testPaint(normOf(ln)) THEN NullItem
    ELSE the({itemOf_second(tokens) : tokens \in {tokensOf(ln)}})

----------------------------------------------------------------------------
(* parsePaintLineFlexible, first declaration (lines 205-331): shadowed by  *)
(* the second.                                                             *)

\* 1) cleaned = tokens[i].replace(...); if (!cleaned) continue; num = parseFloat(cleaned)
qtyIdx_first(tokens, s) ==
    firstIndex(s + 1, minOf(Len(tokens), s + 6) - 1,
               LAMBDA i : /\ cleaned(tok(tokens, i)) # <<>>
                          /\ ~isNaN(parseFloat(cleaned(tok(tokens, i)))))

\* 2) for (i = qtyIdx + 1; i < Math.min(tokens.length, qtyIdx + 4); i++)
unitIdx_first(tokens, q) ==
    firstIndex(q + 1, minOf(Len(tokens), q + 4) - 1,
               LAMBDA i : arrayIncludes(unitWords, toLowerCase(tok(tokens, i))))

\* 3a) WAxxxx first, 3b) else a short alphanumeric code; searchFrom = unitIdx + 1
codeIdx_first(tokens, from) ==
    the({IF wa # -1 THEN wa
         ELSE firstIndex(from, Len(tokens) - 1, LAMBDA i : testShortCode(tok(tokens, i))) :
           wa \in {firstIndex(from, Len(tokens) - 1, LAMBDA i : testWA(tok(tokens, i)))}})

\* the locals startIdx, qtyIdx, unitIdx, codeIdx of a call that reaches step 3
anchors_first(tokens) ==
    the({the({the({[s |-> s, q |-> q, u |-> u, c |-> codeIdx_first(tokens, u + 1)] :
                     u \in {unitIdx_first(tokens, q)}}) :
                q \in {qtyIdx_first(tokens, s)}}) :
           s \in {startIdx(tokens)}})

\* rawMakeTokens.filter((t) => !brandWords.includes(t.toLowerCase()))
filterBrands(ts) == SelectSeq(ts, LAMBDA t : ~arrayIncludes(brandWords, toLowerCase(t)))

\* if (filtered.length > 0) make = filtered.join(" ")     (make starts as "Unknown")
joinOrUnknown(filtered) == IF Len(filtered) > 0 THEN join(filtered, <<" ">>) ELSE W_Unknown

\* 4) make
make_first(tokens, a) ==
    IF a.c # -1 /\ a.c > a.u + 1
    THEN joinOrUnknown(filterBrands(sliceTokens(tokens, a.u + 1, a.c)))
    ELSE IF a.c # -1 /\ a.q > a.s + 1
    THEN joinOrUnknown(filterBrands(sliceTokens(tokens, a.s + 1, a.q)))
    ELSE W_Unknown

\* colorTokens without a last token that looks like a price
dropPrice(colorTokens) ==
    IF testPrice(colorTokens[Len(colorTokens)])
    THEN SubSeq(colorTokens, 1, Len(colorTokens) - 1)
    ELSE colorTokens

\* 5) color
color_first(tokens, c) ==
    IF c # -1 /\ c < Len(tokens) - 1
    THEN join(dropPrice(sliceTokens(tokens, c + 1, Len(tokens))), <<" ">>)
    ELSE <<>>

\* the two early returns of null, and the returned object
result_first(tokens, a) ==
    IF a.q = -1 THEN NullItem
    ELSE IF a.u = -1 THEN NullItem
    ELSE Item(parseFloat(cleaned(tok(tokens, a.q))),
              orElse(normalizeUnit(tok(tokens, a.u)), orElse(tok(tokens, a.u), <<>>)),
              orElse(make_first(tokens, a), W_Unknown),
              orElse(code(tokens, a.c), <<>>),
              orElse(color_first(tokens, a.c), <<>>))

itemOf_first(tokens) == the({result_first(tokens, a) : a \in {anchors_first(tokens)}})

parsePaintLineFlexible_first(ln) ==
    IF ~testPaint(normOf(ln)) THEN NullItem
    ELSE the({itemOf_first(tokens) : tokens \in {tokensOf(ln)}})

\* The identifier parsePaintLineFlexible: of two function declarations of one
\* name in one scope, the later is the binding every call resolves to.
parsePaintLineFlexible(ln) == parsePaintLineFlexible_second(ln)

----------------------------------------------------------------------------
(* Line item aggregation                                                   *)

W_bar == <<" ", "|", " ">>

\* `${parsed.make} | ${parsed.code} | ${parsed.color} | ${parsed.qty} ${parsed.unit}`
formatItem(it) ==
    it.make \o W_bar \o it.code \o W_bar \o it.color \o W_bar
        \o toStr(it.qty) \o <<" ">> \o it.unit

RECURSIVE formatLoop_second(_, _)
\* for (const line of lines) { if (!/paint/i.test(line)) continue;
\*   parsed = parsePaintLineFlexible(line); if (parsed) parsedItems.push(...) }
formatLoop_second(lines, i) ==
    IF i > Len(lines) THEN <<>>
    ELSE (IF ~testPaint(lines[i]) THEN <<>>
          ELSE the({IF ~parsed.null THEN <<formatItem(parsed)>> ELSE <<>> :
                      parsed \in {parsePaintLineFlexible(lines[i])}}))
           \o formatLoop_second(lines, i + 1)

\* formatPaintItems, second declaration (lines 535-556): the one in effect
formatPaintItems_second(t) ==
    LET parsedItems == the({formatLoop_second(lines, 1) : lines \in {trimmedLines(t)}})
    IN IF Len(parsedItems) = 0 THEN <<>> ELSE join(parsedItems, <<"\n">>)

RECURSIVE formatLoop_first(_, _)
\* for (const line of lines) { three continue tests;
\*   parsed = parsePaintLineFlexible(line); if (parsed && parsed.code) parsedItems.push(...) }
formatLoop_first(lines, i) ==
    IF i > Len(lines) THEN <<>>
    ELSE (IF ~(testPaint(lines[i]) /\ testDigit(lines[i]) /\ testUnitWord(lines[i])) THEN <<>>
          ELSE the({IF ~parsed.null /\ parsed.code # <<>> THEN <<formatItem(parsed)>> ELSE <<>> :
                      parsed \in {parsePaintLineFlexible(lines[i])}}))
           \o formatLoop_first(lines, i + 1)

\* formatPaintItems, first declaration (lines 172-197): shadowed
formatPaintItems_first(t) ==
    LET parsedItems == the({formatLoop_first(lines, 1) : lines \in {trimmedLines(t)}})
    IN IF Len(parsedItems) = 0 THEN <<>> ELSE join(parsedItems, <<"\n">>)

\* The identifier formatPaintItems: the later declaration
formatPaintItems(t) == formatPaintItems_second(t)

\* function extractLineItems(text) (lines 703-718)
extractLineItems(t) == join(SelectSeq(trimmedLines(t), LAMBDA l : testPaint(l)), <<"\n">>)

\* function extractPaintLinesFallback(text) (lines 345-360): called only by the
\* first handler, which the second assignment to exports.handler replaces
extractPaintLinesFallback(t) == join(SelectSeq(trimmedLines(t), LAMBDA l : testPaint(l)), <<"\n">>)

----------------------------------------------------------------------------
(* Header field extractors (lines 478-528; lines 116-166 are the same text) *)

ScanLimit == 10
MinLetters == 4
SliceLimit == 800

\* the markers of the skip test in extractSupplier
skipMarkers == << <<"i","n","v","o","i","c","e">>, <<"b","i","l","l"," ","t","o">>,
                  <<"s","h","i","p"," ","t","o">>, <<"d","a","t","e">>,
                  <<"t","o","t","a","l">>, <<"w","w","w">>, <<".","c","o","m">>,
                  <<"g","a">> >>

\* lower.includes("invoice") || ... || lower.includes("ga")
skipLine(raw) == \E k \in 1..Len(skipMarkers) : includes(toLowerCase(raw), skipMarkers[k])

\* (raw.match(/[A-Za-z]/g) || []).length
letterCount(raw) == Cardinality({i \in 1..Len(raw) : isLetter(raw[i])})

\* extractSupplier scanning every line instead of the first ScanLimit
extractSupplier_unbounded(t) ==
    LET lines == trimmedLines(t)
        i == firstIndex(0, Len(lines) - 1,
                        LAMBDA j : ~skipLine(tok(lines, j)) /\ letterCount(tok(lines, j)) >= MinLetters)
    IN IF i = -1 THEN <<>> ELSE tok(lines, i)

\* function extractSupplier(text)
extractSupplier(t) ==
    LET lines == trimmedLines(t)
        i == firstIndex(0, minOf(Len(lines), ScanLimit) - 1,
                        LAMBDA j : ~skipLine(tok(lines, j)) /\ letterCount(tok(lines, j)) >= MinLetters)
    IN IF i = -1 THEN <<>> ELSE tok(lines, i)

\* number of white-space characters of s in a row from index `from`: \s*
spaceRun(s, from) ==
    IF from > Len(s) \/ s[from] \notin WhiteSpace THEN 0
    ELSE IF \A i \in from..Len(s) : s[i] \in WhiteSpace THEN Len(s) - from + 1
    ELSE (CHOOSE i \in from..Len(s) :
              s[i] \notin WhiteSpace /\ \A j \in from..(i - 1) : s[j] \in WhiteSpace) - from

W_invoice == <<"i","n","v","o","i","c","e">>

\* /Invoice\s*#\s*([0-9]+)/i tried at index i of s: the index of the first
\* digit of the group, or 0 when there is no match at i
invoiceHashAt(s, i) ==
    IF ~matchesAt(s, i, W_invoice) THEN 0
    ELSE LET h == i + 7 + spaceRun(s, i + 7)
         IN IF h > Len(s) \/ s[h] # "#" THEN 0
            ELSE LET d == h + 1 + spaceRun(s, h + 1)
                 IN IF digitRun(s, d) = 0 THEN 0 ELSE d

\* extractInvoiceNumber trying the line fallback before the pattern
extractInvoiceNumber_lineFirst(t) ==
    LET ls == splitLines(t)
        k == firstIndex(1, Len(ls), LAMBDA j : includes(toLowerCase(ls[j]), W_invoice))
        at == firstIndex(1, Len(t), LAMBDA i : invoiceHashAt(t, i) # 0)
    IN IF k # -1 /\ ls[k] # <<>> THEN ls[k]
       ELSE IF at # -1
       THEN LET d == invoiceHashAt(t, at) IN SubSeq(t, d, d + digitRun(t, d) - 1)
       ELSE <<>>

\* function extractInvoiceNumber(text)
extractInvoiceNumber(t) ==
    LET at == firstIndex(1, Len(t), LAMBDA i : invoiceHashAt(t, i) # 0)
    IN IF at # -1
       THEN LET d == invoiceHashAt(t, at) IN SubSeq(t, d, d + digitRun(t, d) - 1)
       ELSE LET ls == splitLines(t)
                k == firstIndex(1, Len(ls), LAMBDA j : includes(toLowerCase(ls[j]), W_invoice))
            IN IF k = -1 THEN <<>> ELSE orElse(ls[k], <<>>)

NullCost == [kind |-> "null", m |-> 0, k |-> 0]

\* number of characters of [\d,] of s in a row from index `from`
amountRun(s, from) ==
    IF from > Len(s) \/ ~(isDigit(s[from]) \/ s[from] = ",") THEN 0
    ELSE IF \A i \in from..Len(s) : isDigit(s[i]) \/ s[i] = "," THEN Len(s) - from + 1
    ELSE (CHOOSE i \in from..Len(s) :
              /\ ~(isDigit(s[i]) \/ s[i] = ",")
              /\ \A j \in from..(i - 1) : isDigit(s[j]) \/ s[j] = ",") - from

\* \s*\$?\s*([\d,]+\.\d{2}) tried at index `from` of s: <<first, last>> of the
\* group, or <<0, 0>>
amountAt(s, from) ==
    LET a == from + spaceRun(s, from)
        b == IF a <= Len(s) /\ s[a] = "$" THEN a + 1 ELSE a
        c == b + spaceRun(s, b)
        r == amountRun(s, c)
        \* without the "$" the two \s* are one run, and c is the same index
    IN IF /\ r > 0 /\ c + r + 2 <= Len(s) /\ s[c + r] = "."
          /\ isDigit(s[c + r + 1]) /\ isDigit(s[c + r + 2])
       THEN <<c, c + r + 2>>
       ELSE <<0, 0>>

\* m.replace(/,/g, "")
removeCommas(s) == SelectSeq(s, LAMBDA ch : ch # ",")

W_total == <<"t","o","t","a","l">>
W_amount_due == <<"a","m","o","u","n","t"," ","d","u","e">>
W_balance_due == <<"b","a","l","a","n","c","e"," ","d","u","e">>

\* /Total\s*\$?\s*([\d,]+\.\d{2})/i at index i: the group, or <<0, 0>>
totalAt(s, i) ==
    IF matchesAt(s, i, W_total) THEN amountAt(s, i + 5) ELSE <<0, 0>>

\* /(amount due|balance due)\s*\$?\s*([\d,]+\.\d{2})/i at index i
dueAt(s, i) ==
    IF matchesAt(s, i, W_amount_due) THEN amountAt(s, i + 10)
    ELSE IF matchesAt(s, i, W_balance_due) THEN amountAt(s, i + 11)
    ELSE <<0, 0>>

\* extractTotal trying the amount-due pattern before the Total pattern
extractTotal_dueFirst(t) ==
    LET m == firstIndex(1, Len(t), LAMBDA i : totalAt(t, i)[1] # 0)
        alt == firstIndex(1, Len(t), LAMBDA i : dueAt(t, i)[1] # 0)
    IN IF alt # -1
       THEN parseFloat(removeCommas(SubSeq(t, dueAt(t, alt)[1], dueAt(t, alt)[2])))
       ELSE IF m # -1
       THEN parseFloat(removeCommas(SubSeq(t, totalAt(t, m)[1], totalAt(t, m)[2])))
       ELSE NullCost

\* extractTotal parsing whatever the second pattern gave, matched or not
extractTotal_unguarded(t) ==
    LET m == firstIndex(1, Len(t), LAMBDA i : totalAt(t, i)[1] # 0)
        alt == firstIndex(1, Len(t), LAMBDA i : dueAt(t, i)[1] # 0)
    IN IF m # -1
       THEN parseFloat(removeCommas(SubSeq(t, totalAt(t, m)[1], totalAt(t, m)[2])))
       ELSE IF alt # -1
       THEN parseFloat(removeCommas(SubSeq(t, dueAt(t, alt)[1], dueAt(t, alt)[2])))
       ELSE parseFloat(<<>>)

\* function extractTotal(text)
extractTotal(t) ==
    LET m == firstIndex(1, Len(t), LAMBDA i : totalAt(t, i)[1] # 0)
        alt == firstIndex(1, Len(t), LAMBDA i : dueAt(t, i)[1] # 0)
    IN IF m # -1
       THEN parseFloat(removeCommas(SubSeq(t, totalAt(t, m)[1], totalAt(t, m)[2])))
       ELSE IF alt # -1
       THEN parseFloat(removeCommas(SubSeq(t, dueAt(t, alt)[1], dueAt(t, alt)[2])))
       ELSE NullCost

----------------------------------------------------------------------------
(* exports.handler, second assignment (lines 364-472): the one in effect   *)

\* s.split(","): the pieces between commas
RECURSIVE splitCommaFrom(_, _)
splitCommaFrom(s, from) ==
    IF \E i \in from..Len(s) : s[i] = ","
    THEN LET c == CHOOSE i \in from..Len(s) :
                      s[i] = "," /\ \A j \in from..(i - 1) : s[j] # ","
         IN <<SubSeq(s, from, c - 1)>> \o splitCommaFrom(s, c + 1)
    ELSE <<SubSeq(s, from, Len(s))>>

\* contentBase64 = parts.length > 1 ? parts[1] : parts[0]
contentBase64(imageBase64) ==
    LET parts == splitCommaFrom(imageBase64, 1)
    IN IF Len(parts) > 1 THEN parts[2] ELSE parts[1]

\* image: imageUrl ? { source: { imageUri: imageUrl } } : { content: contentBase64 }
visionImage(body) ==
    IF body.imageUrl # <<>> THEN [imageUri |-> body.imageUrl, content |-> <<>>]
    ELSE [imageUri |-> <<>>, content |-> contentBase64(body.imageBase64)]

\* notes: formatPaintItems(text) || extractLineItems(text) || text.slice(0, 800)
notesOf(t) == orElse(formatPaintItems(t), orElse(extractLineItems(t), slice0(t, SliceLimit)))

\* const parsed = { supplier, invoice_number, cost, notes }
parsedOf(t) ==
    [supplier |-> extractSupplier(t), invoice_number |-> extractInvoiceNumber(t),
     cost |-> extractTotal(t), notes |-> notesOf(t)]

W_NoText == <<"N","o"," ","t","e","x","t"," ","d","e","t","e","c","t","e","d">>

\* the body of the 200 response when the provider returned no text
\* the summary the extractors would make of an empty text
emptyResult_parsed == parsedOf(<<>>)

emptyResult == [supplier |-> <<>>, invoice_number |-> <<>>, cost |-> NullCost, notes |-> W_NoText]

Respond(status, kind, payload) == [statusCode |-> status, kind |-> kind, payload |-> payload]
NoResponse == Respond(0, "none", <<>>)

----------------------------------------------------------------------------
(* Inputs                                                                  *)

MaxTokens == 5     \* tokens of a line handed to the parser
MaxLines == 3      \* lines of a transcript

T_Paint == <<"P","a","i","n","t">>
T_Half == <<"0",".","5">>
T_Quarts == <<"Q","u","a","r","t","s">>
T_MIPA == <<"M","I","P","A">>
T_GMCHEV == <<"G","M","/","C","H","E","V">>
T_WA8624 == <<"W","A","8","6","2","4">>
T_Price == <<"1","2","2",".","0","0">>

\* the keyword, a quantity, a unit word, a brand word (of short-code shape), a
\* make (of no code shape, with no digit), a WA code, a two-decimal price
TokenVocab == {T_Paint, T_Half, T_Quarts, T_MIPA, T_GMCHEV, T_WA8624, T_Price}

SeqsUpTo(S, n) == UNION {[1..k -> S] : k \in 0..n}

words(ts) == join(ts, <<" ">>)

\* a line whose code comes seven tokens after the unit
LongLine == words(<<T_Paint, T_Half, T_Quarts>> \o [i \in 1..6 |-> T_GMCHEV] \o <<T_WA8624>>)

LineInputs == {words(ts) : ts \in SeqsUpTo(TokenVocab, MaxTokens)} \cup {LongLine}

L_PaintMyRide == <<"P","A","I","N","T"," ","M","Y"," ","R","I","D","E">>
L_TuckerGA == <<"T","u","c","k","e","r",","," ","G","A">>
L_InvoiceNo == <<"I","n","v","o","i","c","e"," ","#","1","8","0","7","5","8","3">>
L_InvoiceSp == <<"I","N","V","O","I","C","E"," ","#"," ","7","7">>
L_InvoiceCopy == <<" ","I","n","v","o","i","c","e"," ","c","o","p","y","\r">>
L_AB1 == <<"A","B","1">>
L_Acme == <<" ","A","C","M","E"," ","S","u","p","p","l","y","\r">>
L_Blank == <<" ","\t">>
L_PaintItem == <<"P","a","i","n","t"," ","2"," ","Q","u","a","r","t","s"," ","k","3","g"," ",
                 "1","2","2",".","0","0"," ","1","2","2",".","0","0">>
L_PaintWA == <<"P","a","i","n","t"," "," ","0",".","5"," ","P","i","n","t"," ","M","I","P","A"," ",
               "G","M","/","C","H","E","V"," ","W","A","8","6","2","4"," ","W","H","I","T","E">>
L_PaintJob == <<"P","a","i","n","t"," ","J","o","b"," ","S","p","e","c","i","a","l">>
L_PaintCan == <<"P","a","i","n","t"," ","1"," ","/","c","a","n","/">>
L_Total == <<"T","o","t","a","l"," ","$","2","0","2",".","0","0">>
L_TotalCommas == <<"t","o","t","a","l",",",".","5","0">>
L_TotalNoCents == <<"T","o","t","a","l"," ","2","0","2">>
L_BalanceDue == <<"B","a","l","a","n","c","e"," ","D","u","e"," ","$","1",",","2","5","0",".","0","0">>

\* line vocabularies, one per group of functions
SupplierLines == {L_PaintMyRide, L_TuckerGA, L_InvoiceNo, L_AB1, L_Acme, L_Blank}
InvoiceLines == {L_InvoiceNo, L_InvoiceSp, L_InvoiceCopy, L_Acme, L_Total}
PaintLines == {L_PaintItem, L_PaintWA, L_PaintJob, L_PaintCan, L_Acme, L_Blank}
TotalLines == {L_Total, L_BalanceDue, L_TotalCommas, L_TotalNoCents, L_InvoiceNo, L_PaintItem}

linesText(ls) == join(ls, <<"\n">>)

RECURSIVE repeatLine(_, _)
\* k copies of a line, each ended by a line feed
repeatLine(l, k) == IF k = 0 THEN <<>> ELSE l \o <<"\n">> \o repeatLine(l, k - 1)

textsOver(V, n) == {linesText(ls) : ls \in SeqsUpTo(V, n)}

\* transcripts: up to n lines of one vocabulary; and, for the supplier scan,
\* ScanLimit - 1 or ScanLimit lines that do not qualify before them
TextsOf(n) ==
    textsOver(SupplierLines, n) \cup textsOver(InvoiceLines, n)
      \cup textsOver(PaintLines, n) \cup textsOver(TotalLines, n)
      \cup {repeatLine(L_AB1, k) \o t :
              k \in {ScanLimit - 1, ScanLimit}, t \in textsOver(SupplierLines, n - 1)}

Texts == TextsOf(MaxLines)

\* a transcript longer than SliceLimit with no "paint" in it
LongText == repeatLine(L_Acme, 62) \o L_Total

\* what the provider may send back: the transcripts one line shorter, and the long one
HandlerTexts == TextsOf(MaxLines - 1) \cup {LongText}

B64Plain == <<"A","A","=","=">>
B64DataUri == <<"d","a","t","a",":","x",";","b","6","4",",","Q","Q","=","=">>
ImageUrl == <<"h","t","t","p",":","/","/","x","/","i",".","p","n","g">>

Body(kind, b64, url) == [kind |-> kind, imageBase64 |-> b64, imageUrl |-> url]

\* event.body: absent; not JSON; the JSON null; a JSON number; a JSON object
\* with either field absent (or empty) or a non-empty string
Bodies ==
    {Body(k, <<>>, <<>>) : k \in {"absent", "invalid", "null", "scalar"}}
      \cup {Body("object", b, u) : b \in {<<>>, B64Plain, B64DataUri}, u \in {<<>>, ImageUrl}}

Events ==
    {[httpMethod |-> m, apiKey |-> a, body |-> b] :
        m \in {"POST", "GET"}, a \in BOOLEAN, b \in Bodies}

----------------------------------------------------------------------------
(* The handler invocation                                                  *)

Idle == /\ line = <<>> /\ item = NullItem /\ fn = "" /\ out = <<>>

Init ==
    /\ Idle
    /\ text = <<>>
    /\ pc = "start"
    /\ event \in Events
    /\ fetches = <<>>
    /\ vision = "none"
    /\ response = NoResponse

Finish(r) ==
    /\ pc' = "done"
    /\ response' = r
    /\ UNCHANGED <<line, item, text, fn, out, event, fetches, vision>>

\* lines 366-371: if (event.httpMethod !== "POST") return 405
RejectMethod ==
    /\ pc = "start"
    /\ event.httpMethod # "POST"
    /\ Finish(Respond(405, "error", "Method not allowed"))

\* lines 375-382: if (!apiKey) return 500
RejectNoKey ==
    /\ pc = "start"
    /\ event.httpMethod = "POST"
    /\ ~event.apiKey
    /\ Finish(Respond(500, "error", "Missing GCV_API_KEY env var"))

\* lines 384-385: JSON.parse throws on text that is not JSON, and destructuring
\* null throws; the catch of lines 461-471 answers 500
BodyThrows ==
    /\ pc = "start"
    /\ event.httpMethod = "POST"
    /\ event.apiKey
    /\ event.body.kind \in {"invalid", "null"}
    /\ Finish(Respond(500, "error", "Server error"))

\* lines 387-393: if (!imageBase64 && !imageUrl) return 400
RejectNoImage ==
    /\ pc = "start"
    /\ event.httpMethod = "POST"
    /\ event.apiKey
    /\ event.body.kind \notin {"invalid", "null"}
    /\ event.body.imageBase64 = <<>> /\ event.body.imageUrl = <<>>
    /\ Finish(Respond(400, "error", "imageBase64 or imageUrl required"))

\* lines 395-420: build the payload and await fetch(...)
CallVision ==
    /\ pc = "start"
    /\ event.httpMethod = "POST"
    /\ event.apiKey
    /\ event.body.kind \notin {"invalid", "null"}
    /\ ~(event.body.imageBase64 = <<>> /\ event.body.imageUrl = <<>>)
    /\ fetches' = Append(fetches, visionImage(event.body))
    /\ pc' = "awaitFetch"
    /\ UNCHANGED <<line, item, text, fn, out, event, vision, response>>

\* the awaited call came to v and the handler returns r
Resolve(v, r) ==
    /\ pc' = "done"
    /\ vision' = v
    /\ response' = r
    /\ UNCHANGED <<line, item, text, fn, out, event, fetches>>

\* the text the provider sends with a non-success status
Diagnostics == {<<"q","u","o","t","a">>, <<"b","a","d"," ","k","e","y">>}

\* the awaited fetch rejects, or visionRes.json() throws, or the JSON is null
\* (visionData.responses throws): the catch of lines 461-471 answers 500
VisionThrows ==
    /\ pc = "awaitFetch"
    /\ \E v \in {"fetchRejected", "notJson", "nullData"} :
         Resolve(v, Respond(500, "error",
                            [error |-> "Server error",
                             details |-> [message |-> v, status |-> 0, text |-> <<>>]]))

\* a non-success status answered by asking the provider again (up to twice)
VisionNotOk_retry ==
    /\ pc = "awaitFetch"
    /\ Len(fetches) < 3
    /\ pc' = "start"
    /\ UNCHANGED <<line, item, text, fn, out, event, fetches, vision, response>>

\* lines 422-425: if (!visionRes.ok) throw new Error(`Vision API error ...`),
\* which the catch answers with 500 and String(err)
VisionNotOk ==
    /\ pc = "awaitFetch"
    /\ \E status \in {403, 500}, err \in Diagnostics :
         Resolve("notOk",
                 Respond(500, "error",
                         [error |-> "Server error",
                          details |-> [message |-> "Vision API error", status |-> status,
                                       text |-> err]]))

\* lines 427-442: no responses, no first response, no fullTextAnnotation, or
\* an empty text
VisionNoText ==
    /\ pc = "awaitFetch"
    /\ \E v \in {"noResponses", "emptyResponses", "noAnnotation", "emptyText"} :
         Resolve(v, Respond(200, "summary", emptyResult))

\* lines 444-460: a transcript came back
VisionText ==
    /\ pc = "awaitFetch"
    /\ \E t \in HandlerTexts :
         /\ t # <<>>
         /\ text' = t
         /\ pc' = "done"
         /\ vision' = "text"
         /\ response' = Respond(200, "summary", parsedOf(t))
    /\ UNCHANGED <<line, item, fn, out, event, fetches>>

Next ==
    \/ RejectMethod \/ RejectNoKey \/ BodyThrows \/ RejectNoImage \/ CallVision
    \/ VisionThrows \/ VisionNotOk \/ VisionNoText \/ VisionText

Spec == Init /\ [][Next]_vars

\* the handler's own steps are taken, and the awaited call settles
FairSpec == Spec /\ WF_vars(Next)

----------------------------------------------------------------------------
(* The parser applied to a line                                            *)

Off == /\ pc = "off" /\ event = [httpMethod |-> "", apiKey |-> FALSE, body |-> Body("absent", <<>>, <<>>)]
       /\ fetches = <<>> /\ vision = "none" /\ response = NoResponse

InitLine ==
    /\ Off
    /\ text = <<>> /\ out = <<>>
    /\ line \in LineInputs
    /\ item = NullItem
    /\ fn = ""

ParseLine ==
    /\ pc = "off" /\ fn = ""
    /\ fn' = "parsePaintLineFlexible"
    /\ item' = parsePaintLineFlexible(line)
    /\ UNCHANGED <<line, text, out, pc, event, fetches, vision, response>>

NextLine == ParseLine

SpecLine == InitLine /\ [][NextLine]_vars

----------------------------------------------------------------------------
(* The text-level functions applied to a transcript                        *)

InitText ==
    /\ Off
    /\ line = <<>> /\ item = NullItem
    /\ text \in Texts
    /\ fn = ""
    /\ out = <<>>

Apply(name, value) ==
    /\ pc = "off" /\ fn = ""
    /\ fn' = name
    /\ out' = value
    /\ UNCHANGED <<line, item, text, pc, event, fetches, vision, response>>

ApplyFormatPaintItems == Apply("formatPaintItems", formatPaintItems(text))
ApplyExtractLineItems == Apply("extractLineItems", extractLineItems(text))
ApplyExtractSupplier == Apply("extractSupplier", extractSupplier(text))
ApplyExtractInvoiceNumber == Apply("extractInvoiceNumber", extractInvoiceNumber(text))
ApplyExtractTotal == Apply("extractTotal", extractTotal(text))

NextText ==
    \/ ApplyFormatPaintItems \/ ApplyExtractLineItems \/ ApplyExtractSupplier
    \/ ApplyExtractInvoiceNumber \/ ApplyExtractTotal

SpecText == InitText /\ [][NextText]_vars
----------------------------------------------------------------------------
(* normalizeUnit applied to a token                                        *)

\* the spellings of a lower-case word in every mix of letter cases
caseVariants(w) ==
    {[i \in 1..Len(w) |->
         IF mask[i] THEN UpperSeq[CHOOSE k \in 1..Len(LowerSeq) : LowerSeq[k] = w[i]] ELSE w[i]] :
       mask \in [1..Len(w) -> BOOLEAN]}

\* tokens that are near a unit word without being one, and the empty string
OtherUnitTokens ==
    { <<>>, <<"p">>, <<"p","t","s">>, <<"P","T",".">>, <<"q","t","s">>, <<"g","a","l","s">>,
      <<"G","a","l","l","o","n","e">>, <<"x","p","i","n","t">>, <<"h","a","l","f","-","P","i","n","t">>,
      <<"P","i","n","t","o">>, <<"Q","U","A","R","T","Z">>, <<"q","u","a","r">>, <<"c","a","n">>,
      <<"L","i","t","e","r">>, <<"0",".","5","p","i","n","t">>, <<"G","A">> }

UnitInputs == UNION {caseVariants(unitWords[k]) : k \in 1..Len(unitWords)} \cup OtherUnitTokens

InitUnit ==
    /\ Off
    /\ text = <<>> /\ out = <<>>
    /\ line \in UnitInputs
    /\ item = NullItem
    /\ fn = ""

NormalizeToken ==
    /\ pc = "off" /\ fn = ""
    /\ fn' = "normalizeUnit"
    /\ out' = normalizeUnit(line)
    /\ UNCHANGED <<line, text, item, pc, event, fetches, vision, response>>

NextUnit == NormalizeToken

SpecUnit == InitUnit /\ [][NextUnit]_vars

----------------------------------------------------------------------------
(* The parser and the header extractors applied to any string             *)

\* strings that are empty, blank, or fragments of the patterns
OddInputs ==
    { <<>>, <<" ">>, <<"\t"," ","\r","\n"," ">>, <<"\n","\n">>, <<"#">>, <<"$",",",".">>,
      <<"p","a","i","n","t">>, <<"P","A","I","N","T","\n">>, <<"x","P","a","i","n","t","s"," ","7">>,
      <<"P","a","i","n","t"," ",".">>, <<"P","a","i","n","t"," ","5","p","i","n","t">>,
      <<"I","n","v","o","i","c","e","#">>, <<"i","n","v","o","i","c","e"," ","#"," ","\n","7">>,
      <<"T","o","t","a","l"," ","$">>, <<"T","o","t","a","l"," ","."," ","0","0">>,
      <<"b","a","l","a","n","c","e"," ","d","u","e","\n","1",".","0","0">> }

AnyInputs == Texts \cup OddInputs

\* a token is read at index i of tokens although there is none: the method
\* call on it raises a TypeError
noToken(tokens, i) == ~(0 <= i /\ i < Len(tokens))

\* the reads of tokens[i] in the parser (lines 586, 610, 621, 644)
parseRaises(ln) ==
    testPaint(normOf(ln)) /\
    \E tokens \in {tokensOf(ln)} : \E a \in {anchors_second(tokens)} :
        \/ \E i \in (a.s + 1)..(minOf(Len(tokens), a.s + 6) - 1) : (a.q = -1 \/ i <= a.q) /\ noToken(tokens, i)
        \/ a.q # -1 /\ \E i \in (a.q + 1)..(minOf(Len(tokens), a.q + 4) - 1) : noToken(tokens, i)
        \/ a.q # -1 /\ a.u = -1 /\ noToken(tokens, a.q)
        \/ \E i \in searchFrom(a.s, a.q, a.u)..(Len(tokens) - 1) : noToken(tokens, i)

\* the reads of lines[i] in extractSupplier (lines 485-486)
supplierRaises(t) ==
    \E i \in 0..(minOf(Len(trimmedLines(t)), ScanLimit) - 1) : noToken(trimmedLines(t), i)

InitAny ==
    /\ Off
    /\ line = <<>> /\ item = NullItem
    /\ text \in AnyInputs
    /\ fn = ""
    /\ out = <<>>

\* a call that returns value, or ends in a TypeError
Call(name, raises, value) ==
    /\ pc = "off" /\ fn = ""
    /\ IF raises THEN fn' = "TypeError" /\ out' = out
       ELSE fn' = name /\ out' = value
    /\ UNCHANGED <<line, item, text, pc, event, fetches, vision, response>>

CallParse ==
    /\ pc = "off" /\ fn = ""
    /\ IF parseRaises(text) THEN fn' = "TypeError" /\ item' = item
       ELSE fn' = "parsePaintLineFlexible" /\ item' = parsePaintLineFlexible(text)
    /\ UNCHANGED <<line, out, text, pc, event, fetches, vision, response>>

CallExtractSupplier == Call("extractSupplier", supplierRaises(text), extractSupplier(text))
CallExtractInvoiceNumber == Call("extractInvoiceNumber", FALSE, extractInvoiceNumber(text))
CallExtractTotal == Call("extractTotal", FALSE, extractTotal(text))

NextAny == CallParse \/ CallExtractSupplier \/ CallExtractInvoiceNumber \/ CallExtractTotal

SpecAny == InitAny /\ [][NextAny]_vars

----------------------------------------------------------------------------
(* Properties of the paint line parser (SpecLine)                          *)

Parsed == fn = "parsePaintLineFlexible"

\* no token of the quantity window after the anchor parses as a number
NoQuantity(tokens) ==
    \A i \in (startIdx(tokens) + 1)..(minOf(Len(tokens), startIdx(tokens) + 6) - 1) :
        isNaN(parseFloat(cleaned(tok(tokens, i))))

\* there is a quantity, and no token of the unit window after it is a unit word
NoUnit(tokens) ==
    /\ ~NoQuantity(tokens)
    /\ LET q == qtyIdx(tokens, startIdx(tokens))
       IN \A i \in (q + 1)..(minOf(Len(tokens), q + 4) - 1) :
              ~arrayIncludes(unitWords, toLowerCase(tok(tokens, i)))

MissingAnchor(ln) == NoQuantity(tokensOf(ln)) \/ NoUnit(tokensOf(ln))

\* C1: the parser returns null for every line that lacks a mandatory anchor:
\* no number in the quantity window after "paint", or no unit word in the unit
\* window after the quantity.
C1_NullWithoutAnchors == Parsed /\ MissingAnchor(line) => item.null

\* the shadowed first declaration does return null on those lines
C1_FirstDeclaration == MissingAnchor(line) => parsePaintLineFlexible_first(line).null

\* the indices, after index u, of the tokens of WA shape / of short-code shape
WAAfter(tokens, u) == {i \in (u + 1)..(Len(tokens) - 1) : testWA(tok(tokens, i))}
ShortAfter(tokens, u) == {i \in (u + 1)..(Len(tokens) - 1) : testShortCode(tok(tokens, i))}
Least(S) == CHOOSE x \in S : \A y \in S : x <= y

\* the code the claim names, for a line whose unit is at index u
PreferredCode(tokens, u) ==
    IF WAAfter(tokens, u) # {} THEN tok(tokens, Least(WAAfter(tokens, u)))
    ELSE IF ShortAfter(tokens, u) # {} THEN tok(tokens, Least(ShortAfter(tokens, u)))
    ELSE <<>>

\* C2: the code is the first WA-pattern token after the unit whenever there is
\* one, and the first token of short alphanumeric shape only when the rest of
\* the line holds no WA-pattern token.
C2_WAPreferred ==
    Parsed /\ ~item.null =>
        LET tokens == tokensOf(line)
            a == anchors_second(tokens)
        IN a.u # -1 => item.code = PreferredCode(tokens, a.u)

\* the same, of the shadowed first declaration
C2_FirstDeclaration ==
    LET it == parsePaintLineFlexible_first(line)
        tokens == tokensOf(line)
    IN ~it.null => it.code = PreferredCode(tokens, anchors_first(tokens).u)

IsBrand(t) == arrayIncludes(brandWords, toLowerCase(t))

\* C3: no token of the make of a returned item is a brand word.
C3_NoBrandInMake ==
    Parsed /\ ~item.null =>
        \A k \in 1..Len(splitSpace(item.make)) : ~IsBrand(splitSpace(item.make)[k])

\* the same, of the shadowed first declaration
C3_FirstDeclaration ==
    LET it == parsePaintLineFlexible_first(line)
    IN ~it.null => \A k \in 1..Len(splitSpace(it.make)) : ~IsBrand(splitSpace(it.make)[k])

WithoutBrands(ts) == SelectSeq(ts, LAMBDA t : ~IsBrand(t))

\* the make the claim names, from the anchors a of a line with a unit and a code
TwoTierMake(tokens, a) ==
    LET first == WithoutBrands(sliceTokens(tokens, a.u + 1, a.c))
        second == WithoutBrands(sliceTokens(tokens, a.s + 1, a.q))
    IN IF first # <<>> THEN join(first, <<" ">>)
       ELSE IF second # <<>> THEN join(second, <<" ">>)
       ELSE W_Unknown

\* C4: make is the brand-filtered span between unit and code; if that is
\* empty, the brand-filtered span between keyword and quantity; if that is
\* empty too, "Unknown".
C4_TwoTierMake ==
    Parsed /\ ~item.null =>
        LET tokens == tokensOf(line)
            a == anchors_second(tokens)
        IN a.u # -1 /\ a.c # -1 => item.make = TwoTierMake(tokens, a)

\* the same, of the shadowed first declaration
C4_FirstDeclaration ==
    LET it == parsePaintLineFlexible_first(line)
        tokens == tokensOf(line)
        a == anchors_first(tokens)
    IN ~it.null /\ a.c # -1 => it.make = TwoTierMake(tokens, a)

\* the color the claim names, for a line whose code is at index c
ColorAfter(tokens, c) ==
    LET rest == sliceTokens(tokens, c + 1, Len(tokens))
    IN IF rest = <<>> THEN <<>>
       ELSE IF testPrice(rest[Len(rest)]) THEN join(SubSeq(rest, 1, Len(rest) - 1), <<" ">>)
       ELSE join(rest, <<" ">>)

\* C5: color is the tokens after the code, joined by spaces, without the last
\* one when it looks like a two-decimal price; it is empty when the code is
\* the last token.
C5_ColorDropsPrice ==
    Parsed /\ ~item.null =>
        LET tokens == tokensOf(line)
            a == anchors_second(tokens)
        IN a.c # -1 => item.color = ColorAfter(tokens, a.c)

\* the same, of the shadowed first declaration
C5_FirstDeclaration ==
    LET it == parsePaintLineFlexible_first(line)
        tokens == tokensOf(line)
        a == anchors_first(tokens)
    IN ~it.null /\ a.c # -1 => it.color = ColorAfter(tokens, a.c)

----------------------------------------------------------------------------
(* Properties of the text-level functions (SpecText)                       *)

\* the candidate filter the claim names
Candidate(l) == testPaint(l) /\ testDigit(l) /\ testUnitWord(l)

RECURSIVE FormattedCandidates(_)
\* the formatted items of the candidate lines the parser returns an item for
FormattedCandidates(ls) ==
    IF ls = <<>> THEN <<>>
    ELSE (IF Candidate(Head(ls)) /\ ~parsePaintLineFlexible(Head(ls)).null
          THEN <<formatItem(parsePaintLineFlexible(Head(ls)))>>
          ELSE <<>>) \o FormattedCandidates(Tail(ls))

\* C6: formatPaintItems returns the formatted items, joined by line feeds in
\* document order, of exactly the non-empty lines that contain "paint", a
\* digit and a unit word and that the parser returns an item for.
C6_OnlyCandidatesFormatted ==
    fn = "formatPaintItems" => out = join(FormattedCandidates(trimmedLines(text)), <<"\n">>)

\* the handler has answered with the summary of a non-empty text
Summarised == pc = "done" /\ response.kind = "summary" /\ text # <<>>

\* the lines that contain "paint", trimmed, in document order
PaintLinesOf(t) == SelectSeq(trimmedLines(t), testPaint)

\* the notes the claim names
PreferredNotes(t) ==
    IF FormattedCandidates(trimmedLines(t)) # <<>>
    THEN join(FormattedCandidates(trimmedLines(t)), <<"\n">>)
    ELSE IF PaintLinesOf(t) # <<>> THEN join(PaintLinesOf(t), <<"\n">>)
    ELSE slice0(t, SliceLimit)

\* C7: for a non-empty text, notes is the formatted items when structured
\* parsing yields an item; otherwise the trimmed lines containing "paint",
\* joined by line feeds; otherwise the first 800 characters of the text.
C7_NotesPreference == Summarised => response.payload.notes = PreferredNotes(text)

\* the order of the chain over the functions as they are: the first non-empty
\* of formatPaintItems, extractLineItems and the excerpt
C7_ChainOrder ==
    Summarised =>
        response.payload.notes =
            (IF formatPaintItems(text) # <<>> THEN formatPaintItems(text)
             ELSE IF extractLineItems(text) # <<>> THEN extractLineItems(text)
             ELSE slice0(text, SliceLimit))

\* the loose paint-line tier is never the one used
C7_LooseTierUnused ==
    Summarised => ~(formatPaintItems(text) = <<>> /\ extractLineItems(text) # <<>>)

\* a text longer than the excerpt, without paint lines, is cut to the excerpt
C7_ExcerptCut == Summarised /\ Len(text) > SliceLimit /\ response.payload.notes = slice0(text, SliceLimit)

----------------------------------------------------------------------------
(* Properties of the header extractors (SpecText)                          *)

BoilerplateMarkers ==
    { <<"i","n","v","o","i","c","e">>, <<"b","i","l","l"," ","t","o">>,
      <<"s","h","i","p"," ","t","o">>, <<"d","a","t","e">>, <<"t","o","t","a","l">>,
      <<"w","w","w">>, <<".","c","o","m">>, <<"g","a">> }

\* a line that holds no boilerplate marker and at least four letters
Qualifies(l) ==
    /\ \A m \in BoilerplateMarkers : ~includes(toLowerCase(l), m)
    /\ Cardinality({i \in 1..Len(l) : isLetter(l[i])}) >= 4

\* the positions, among the first ten trimmed non-empty lines, of the lines that qualify
QualifyingHead(t) ==
    {i \in 1..minOf(Len(trimmedLines(t)), 10) : Qualifies(trimmedLines(t)[i])}

SupplierApplied == fn = "extractSupplier"

\* C8: extractSupplier returns the earliest of the first ten trimmed non-empty
\* lines that holds no boilerplate marker and at least four letters, and never
\* returns, as a qualifying line, a line beyond the tenth.
C8_EarliestQualifying ==
    SupplierApplied =>
        IF QualifyingHead(text) # {}
        THEN out = trimmedLines(text)[Least(QualifyingHead(text))]
        ELSE ~Qualifies(out)

\* a first line "Invoice #1807583" is skipped and the next line is returned
C8_InvoiceLineSkipped ==
    /\ SupplierApplied
    /\ Len(trimmedLines(text)) >= 2
    /\ trimmedLines(text)[1] = L_InvoiceNo
    /\ out = trimmedLines(text)[2]
    /\ Qualifies(out)

\* a qualifying eleventh line is not returned
C8_EleventhIgnored ==
    /\ SupplierApplied
    /\ Len(trimmedLines(text)) > 10
    /\ Qualifies(trimmedLines(text)[11])
    /\ QualifyingHead(text) = {}
    /\ out = <<>>

\* C9: when none of the first ten non-empty lines qualifies, extractSupplier
\* returns the first non-empty line of the document, and the empty string
\* only if the document has no non-empty line.
C9_FirstLineFallback ==
    SupplierApplied /\ QualifyingHead(text) = {} =>
        out = (IF trimmedLines(text) = <<>> THEN <<>> ELSE trimmedLines(text)[1])

InvoiceApplied == fn = "extractInvoiceNumber"

IsSpace(c) == c \in WhiteSpace

\* "invoice" in any case at position i of t
InvoiceAt(t, i) == i + 6 <= Len(t) /\ toLowerCase(SubSeq(t, i, i + 6)) = W_invoice

\* between the "invoice" at i and position d: white space, "#", white space
HashBetween(t, i, d) ==
    \E h \in (i + 7)..(d - 1) :
        /\ t[h] = "#"
        /\ \A j \in (i + 7)..(h - 1) : IsSpace(t[j])
        /\ \A j \in (h + 1)..(d - 1) : IsSpace(t[j])

\* the digits of positions d..e, which no digit follows
DigitsAt(t, d, e) ==
    /\ \A j \in d..e : isDigit(t[j])
    /\ (e < Len(t) => ~isDigit(t[e + 1]))

\* the positions where an occurrence of "Invoice # <digits>" starts
NumberedStarts(t) ==
    {i \in 1..Len(t) :
        InvoiceAt(t, i) /\ \E d \in (i + 8)..Len(t) : isDigit(t[d]) /\ HashBetween(t, i, d)}

\* the positions of the lines that contain "invoice" in any case
LinesWithInvoice(t) ==
    {k \in 1..Len(splitLines(t)) : includes(toLowerCase(splitLines(t)[k]), W_invoice)}

\* C10: extractInvoiceNumber returns the digits of the first "Invoice # <digits>"
\* of the text when there is one; otherwise the first line containing
\* "invoice", verbatim; otherwise the empty string; and the result is empty
\* exactly when the text does not contain "invoice".
C10_OrderedFallbacks ==
    InvoiceApplied =>
        /\ \E S \in {NumberedStarts(text)} :
             IF S # {}
             THEN \E i \in {Least(S)} : \E d \in (i + 8)..Len(text) :
                      /\ isDigit(text[d])
                      /\ HashBetween(text, i, d)
                      /\ \E e \in d..Len(text) :
                             DigitsAt(text, d, e) /\ out = SubSeq(text, d, e)
             ELSE \E K \in {LinesWithInvoice(text)} :
                      IF K # {} THEN out = splitLines(text)[Least(K)] ELSE out = <<>>
        /\ (out = <<>>) <=> ~includes(toLowerCase(text), W_invoice)

\* the number is returned although an earlier line holds "invoice" without one
C10_NumberAfterPlainLine ==
    /\ InvoiceApplied
    /\ Len(splitLines(text)) >= 2
    /\ 1 \in LinesWithInvoice(text)
    /\ NumberedStarts(text) # {}
    /\ Least(NumberedStarts(text)) > Len(splitLines(text)[1])
    /\ out = <<"1","8","0","7","5","8","3">>

\* the line fallback is taken: "invoice" without a number
C10_LineFallbackTaken ==
    InvoiceApplied /\ NumberedStarts(text) = {} /\ LinesWithInvoice(text) # {} /\ out # <<>>

TotalApplied == fn = "extractTotal"

\* the characters of positions from..(d - 1): white space with at most one "$"
CurrencyGap(t, from, d) ==
    /\ \A j \in from..(d - 1) : IsSpace(t[j]) \/ t[j] = "$"
    /\ Cardinality({j \in from..(d - 1) : t[j] = "$"}) <= 1

\* positions d..e hold digits and commas, a point and exactly two more digits
TwoDecimalAmount(t, d, e) ==
    /\ d + 3 <= e /\ e <= Len(t)
    /\ \A j \in d..(e - 3) : isDigit(t[j]) \/ t[j] = ","
    /\ t[e - 2] = "."
    /\ isDigit(t[e - 1]) /\ isDigit(t[e])

\* the positions where the word w starts, in any case
LabelStarts(t, w) ==
    {i \in 1..(Len(t) - Len(w) + 1) : toLowerCase(SubSeq(t, i, i + Len(w) - 1)) = w}

\* <<i, d, e>> of every occurrence of the word w at i followed, after a
\* currency gap, by an amount at d..e
LabelledAmounts(t, w) ==
    UNION {UNION {{<<i, d, e>> : e \in {e \in (d + 3)..Len(t) : TwoDecimalAmount(t, d, e)}} :
                     d \in {d \in (i + Len(w))..Len(t) : CurrencyGap(t, i + Len(w), d)}} :
             i \in LabelStarts(t, w)}

\* every "Total <amount>" of the text
TotalAmounts(t) == LabelledAmounts(t, W_total)

\* every "amount due <amount>" and "balance due <amount>" of the text
DueAmounts(t) == LabelledAmounts(t, W_amount_due) \cup LabelledAmounts(t, W_balance_due)

\* the occurrence that starts first
Earliest(S) == CHOOSE x \in S : \A y \in S : x[1] <= y[1]

\* the number an amount writes: its digits, as hundredths
AmountValue(t, x) == normalise(digitsValue(SelectSeq(SubSeq(t, x[2], x[3]), isDigit)), 2)

\* C11: extractTotal returns the amount of the first "Total <two-decimal
\* amount>" of the text, thousands separators removed, whatever amount-due
\* or balance-due amount the text holds; without one, the amount of the first
\* "amount due" or "balance due"; it returns null exactly when the text holds
\* neither, and never NaN.
C11_TotalBeforeDue ==
    TotalApplied =>
        /\ \E T \in {TotalAmounts(text)} : \E D \in {DueAmounts(text)} :
              /\ T # {} => out = AmountValue(text, Earliest(T))
              /\ T = {} /\ D # {} => out = AmountValue(text, Earliest(D))
              /\ (out = NullCost) <=> (T = {} /\ D = {})
        /\ ~isNaN(out)

\* the Total amount is returned although a balance-due amount comes first
C11_TotalAfterDue ==
    /\ TotalApplied
    /\ TotalAmounts(text) # {} /\ DueAmounts(text) # {}
    /\ Earliest(DueAmounts(text))[1] < Earliest(TotalAmounts(text))[1]
    /\ out = AmountValue(text, Earliest(TotalAmounts(text)))
    /\ out # AmountValue(text, Earliest(DueAmounts(text)))

\* the balance-due amount is returned, its separator removed
C11_DueUsed == TotalApplied /\ TotalAmounts(text) = {} /\ out = Num(1250, 0)

\* null is returned for a text that names a total without a two-decimal amount
C11_NullReturned == TotalApplied /\ out = NullCost /\ includes(toLowerCase(text), W_total)

----------------------------------------------------------------------------
(* Properties of normalizeUnit (SpecUnit)                                  *)

Normalized == fn = "normalizeUnit"

\* the word p is the beginning of l
HasPrefix(l, p) == Len(l) >= Len(p) /\ SubSeq(l, 1, Len(p)) = p

IsPint(l) == HasPrefix(l, <<"p","i","n","t">>) \/ l = <<"p","t">>
IsQuart(l) == HasPrefix(l, <<"q","u","a","r","t">>) \/ l = <<"q","t">>
IsGallon(l) == HasPrefix(l, <<"g","a","l","l","o","n">>) \/ l = <<"g","a","l">>

UnitVocabulary ==
    { <<"p","i","n","t">>, <<"p","i","n","t","s">>, <<"p","t">>,
      <<"q","u","a","r","t">>, <<"q","u","a","r","t","s">>, <<"q","t">>,
      <<"g","a","l","l","o","n">>, <<"g","a","l","l","o","n","s">>, <<"g","a","l">> }

\* C12: normalizeUnit maps, in any letter case, a token beginning with "pint"
\* or equal to "pt" to "Pint", one beginning with "quart" or equal to "qt" to
\* "Quart", one beginning with "gallon" or equal to "gal" to "Gallon", and
\* returns every other token unchanged; a token of the unit vocabulary maps
\* into {Pint, Quart, Gallon}.
C12_UnitNormalized ==
    Normalized =>
        \E l \in {toLowerCase(line)} :
            /\ IsPint(l) => out = <<"P","i","n","t">>
            /\ IsQuart(l) => out = <<"Q","u","a","r","t">>
            /\ IsGallon(l) => out = <<"G","a","l","l","o","n">>
            /\ ~(IsPint(l) \/ IsQuart(l) \/ IsGallon(l)) => out = line
            /\ l \in UnitVocabulary =>
                   out \in {<<"P","i","n","t">>, <<"Q","u","a","r","t">>, <<"G","a","l","l","o","n">>}

\* a plural in mixed case is mapped
C12_MixedCaseMapped ==
    /\ Normalized
    /\ line = <<"Q","u","A","R","t","s">>
    /\ out = <<"Q","u","a","r","t">>

\* a token that only resembles a unit word is returned as it is
C12_OtherUnchanged == Normalized /\ line = <<"g","a","l","s">> /\ out = line

----------------------------------------------------------------------------
(* Totality of the parser and the header extractors (SpecAny)             *)

IsString(v) == Len(v) \in Nat

IsNumber(v) == v.kind = "num" /\ v.m \in Nat /\ v.k \in Nat

\* an item: a number or the empty string for qty, and four strings
WellFormedItem(it) ==
    /\ it.qty.kind = "empty" \/ IsNumber(it.qty)
    /\ IsString(it.unit) /\ IsString(it.make) /\ IsString(it.code) /\ IsString(it.color)
    /\ it.make # <<>>

Blank(t) == \A i \in 1..Len(t) : IsSpace(t[i])

\* C13: on any string, the empty and the blank among them, the parser and the
\* three header extractors return without raising: an item or null, a
\* string, a number or null; and where nothing matches, null and the empty
\* string.
C13_TotalOnAnyString ==
    /\ fn # "TypeError"
    /\ fn = "parsePaintLineFlexible" =>
          /\ item.null \/ WellFormedItem(item)
          /\ ~includes(toLowerCase(text), W_paint) => item.null
    /\ fn = "extractSupplier" =>
          /\ IsString(out)
          /\ Blank(text) => out = <<>>
    /\ fn = "extractInvoiceNumber" =>
          /\ IsString(out)
          /\ ~includes(toLowerCase(text), W_invoice) => out = <<>>
    /\ fn = "extractTotal" =>
          /\ out = NullCost \/ IsNumber(out)
          /\ ~includes(toLowerCase(text), W_total) /\ ~includes(toLowerCase(text), <<"d","u","e">>)
                => out = NullCost

\* a blank, non-empty string has been through the total extractor
C13_BlankTotalled == fn = "extractTotal" /\ text # <<>> /\ Blank(text) /\ out = NullCost

\* the empty string has been through the parser
C13_EmptyParsed == fn = "parsePaintLineFlexible" /\ text = <<>> /\ item.null

\* a string with the keyword and nothing else gives an item of defaults
C13_DefaultItem ==
    /\ fn = "parsePaintLineFlexible" /\ ~item.null
    /\ item.qty = EmptyQty /\ item.code = <<>> /\ item.make = W_Unknown

----------------------------------------------------------------------------
(* Properties of the handler (Spec)                                        *)

Answered == pc = "done"

IsPost == event.httpMethod = "POST"

\* the body holds neither image reference: it is absent, or not JSON, or not
\* an object, or an object with both fields absent or empty
LacksImage == event.body.imageBase64 = <<>> /\ event.body.imageUrl = <<>>

\* C14: every POST whose body holds neither image reference is answered 400,
\* with no request to the provider and no parsing, whatever the rest of the
\* request and the environment: credential configured or not, body empty or
\* not a JSON object.
C14_NoImageRejected ==
    Answered /\ IsPost /\ LacksImage =>
        response.statusCode = 400 /\ fetches = <<>> /\ text = <<>>

\* with the credential configured and a body that parses to a value other
\* than null, the answer is 400
C14_ParsedBodyRejected ==
    Answered /\ IsPost /\ LacksImage /\ event.apiKey /\ event.body.kind \in {"absent", "scalar", "object"}
        => response.statusCode = 400

\* whatever the answer, the provider is not requested and nothing is parsed
C14_NoCallNoParsing == IsPost /\ LacksImage => fetches = <<>> /\ text = <<>> /\ pc # "awaitFetch"

\* the provider answered with success and no transcript
NoTranscript == vision \in {"noResponses", "emptyResponses", "noAnnotation", "emptyText"}

\* C15: when the provider call succeeds without a transcript, the handler
\* answers 200 with supplier "", invoice_number "", cost null and the fixed
\* notes "No text detected", and no field extractor is applied.
C15_EmptyResult ==
    Answered /\ NoTranscript =>
        /\ response.statusCode = 200 /\ response.kind = "summary"
        /\ response.payload.supplier = <<>>
        /\ response.payload.invoice_number = <<>>
        /\ response.payload.cost = NullCost
        /\ response.payload.notes = <<"N","o"," ","t","e","x","t"," ","d","e","t","e","c","t","e","d">>
        /\ text = <<>> /\ fn = ""

\* a response without fullTextAnnotation has been answered with the sentinel
C15_NoAnnotationAnswered ==
    /\ Answered /\ vision = "noAnnotation" /\ Len(fetches) = 1
    /\ response.statusCode = 200
    /\ response.payload.notes # notesOf(<<>>)

\* the awaited call failed, or the provider answered with a non-success status
UpstreamFailed == vision \in {"fetchRejected", "notJson", "nullData", "notOk"}

\* the provider is requested at most once; not at all in an invocation
\* answered 405, 400 or for the missing credential; and a failed call or a
\* non-success status is answered 500 with the diagnostic, after one request
OneRequest ==
    /\ Len(fetches) <= 1
    /\ Answered /\ response.statusCode \in {405, 400} => fetches = <<>>
    /\ Answered /\ IsPost /\ ~event.apiKey => fetches = <<>> /\ response.statusCode = 500
    /\ Answered /\ UpstreamFailed =>
          /\ Len(fetches) = 1
          /\ response.statusCode = 500 /\ response.kind = "error"
          /\ vision = "notOk" => response.payload.details.text \in Diagnostics

\* once given, the response stays, and nothing more is requested
OneResponse == Answered => Answered' /\ response' = response /\ fetches' = fetches

\* C16: in every invocation the provider is requested at most once, with no
\* retry after a failed call or a non-success status, which is answered 500
\* with the provider's diagnostic; it is never requested in an invocation
\* answered 405, 400 or for a missing credential; and every invocation ends
\* with exactly one response.
C16_OneRequestOneResponse == []OneRequest /\ [][OneResponse]_vars /\ <>[]Answered

\* a non-success status has been answered 500 after a single request
C16_NotOkAnswered ==
    /\ Answered /\ vision = "notOk"
    /\ Len(fetches) = 1
    /\ response.statusCode = 500

\* a rejection has been answered without a request
C16_RejectedWithoutRequest == Answered /\ response.statusCode = 405 /\ fetches = <<>>

----------------------------------------------------------------------------
(* The anchors of a returned item (SpecLine)                               *)

\* C17: for every item the parser returns, the anchors lie in strict left to
\* right order, each within its window past the one before: keyword <
\* quantity < keyword + 6, quantity < unit < quantity + 4, and, when there is
\* a code, unit < code, the code within six tokens of the unit.
C17_AnchorsInWindows ==
    Parsed /\ ~item.null =>
        \E a \in {anchors_second(tokensOf(line))} :
            /\ a.s < a.q /\ a.q < a.s + 6
            /\ a.q < a.u /\ a.u < a.q + 4
            /\ item.code # <<>> => a.u < a.c /\ a.c <= a.u + 6

\* the order and the windows of quantity and unit, of the shadowed first declaration
C17_FirstDeclarationOrder ==
    ~parsePaintLineFlexible_first(line).null =>
        \E a \in {anchors_first(tokensOf(line))} :
            /\ a.s < a.q /\ a.q < a.s + 6
            /\ a.q < a.u /\ a.u < a.q + 4
            /\ a.c # -1 => a.u < a.c

\* the window of the code, of the shadowed first declaration
C17_FirstDeclarationCodeWindow ==
    ~parsePaintLineFlexible_first(line).null =>
        \E a \in {anchors_first(tokensOf(line))} : a.c # -1 => a.c <= a.u + 6

\* with quantity and unit found, the binding declaration keeps their order and windows
C17_FoundAnchorsOrdered ==
    Parsed /\ ~item.null =>
        \E a \in {anchors_second(tokensOf(line))} :
            /\ a.q # -1 => a.s < a.q /\ a.q < a.s + 6
            /\ a.u # -1 => a.q < a.u /\ a.u < a.q + 4
            /\ a.c # -1 => a.q < a.c /\ a.u < a.c

\* with quantity and unit found, the code is within six tokens of the unit
C17_CodeWindow ==
    Parsed /\ ~item.null =>
        \E a \in {anchors_second(tokensOf(line))} :
            a.q # -1 /\ a.u # -1 /\ a.c # -1 => a.c <= a.u + 6
====
